---- MODULE Spec2Model ----
(***************************************************************************)
(* Sentence extractor (ddprrt/refactoring-rust-ws).                        *)
(*                                                                         *)
(* src/src/lib.rs   get_sentences: list a directory, read every "md" file, *)
(*                  parse each article line by line into sentences.        *)
(* src/src/main.rs  get_markdown_files, read_files,                        *)
(*                  parse_markdown_to_sentences, main.                     *)
(*                                                                         *)
(* A string is a sequence of one-character strings:                        *)
(* "a. " is <<"a", ".", " ">>.                                             *)
(***************************************************************************)
EXTENDS Integers, Sequences, FiniteSets, TLC

VARIABLES
    fs,             \* the file system the program runs on (never changes)
    prog,           \* "lib": a call of get_sentences; "main": a run of main
    pc,             \* position in the program
    result,         \* main.rs: the Result of the call that last returned
    printed,        \* main.rs:105  what println! has written
    entry_idx,      \* lib.rs:5   next entry of path.read_dir()
    files,          \* lib.rs:4   Vec<PathBuf>, as indices into fs.entries
    contents,       \* lib.rs:11  Vec<String>
    parsed,         \* lib.rs:17  Vec<Vec<String>>
    article_idx,    \* lib.rs:19  next element of contents
    lines,          \* lib.rs:24  article.lines(), collected
    line_idx,       \* lib.rs:24  next line of the iterator
    sentences,      \* lib.rs:20
    sentence,       \* lib.rs:21  the accumulator
    in_code_block,  \* lib.rs:22
    in_preamble     \* lib.rs:23

vars == <<fs, prog, pc, result, printed, entry_idx, files, contents, parsed, article_idx, lines,
          line_idx, sentences, sentence, in_code_block, in_preamble>>

----------------------------------------------------------------------------
(* Bounds of the model.                                                    *)

MaxLines == 4       \* lines of a generated article
MaxLineLen == 3     \* characters of a generated line
MaxEntries == 2     \* entries of a generated directory

----------------------------------------------------------------------------
(* String operations of the Rust standard library, as the code uses them.  *)

\* str::is_empty
IsEmpty(s) == Len(s) = 0

\* str::starts_with(&str) / starts_with(char)
StartsWith(s, p) == Len(s) >= Len(p) /\ SubSeq(s, 1, Len(p)) = p

\* str::ends_with(char)
EndsWith(s, p) == Len(s) >= Len(p) /\ SubSeq(s, Len(s) - Len(p) + 1, Len(s)) = p

\* position of the first occurrence of p in s, 0 when there is none
Find(s, p) ==
    LET hits == {i \in 1..(Len(s) - Len(p) + 1) : SubSeq(s, i, i + Len(p) - 1) = p}
    IN  IF hits = {} THEN 0 ELSE CHOOSE i \in hits : \A j \in hits : i <= j

\* str::contains(&str)
Contains(s, p) == Find(s, p) # 0

\* str::split(&str), collected: the pieces between non-overlapping matches,
\* found left to right; always at least one piece
RECURSIVE Split(_, _)
Split(s, d) ==
    LET i == Find(s, d)
    IN  IF i = 0 THEN <<s>>
        ELSE <<SubSeq(s, 1, i - 1)>> \o Split(SubSeq(s, i + Len(d), Len(s)), d)

\* str::lines, collected: pieces ended by "\n" (a "\r" before the "\n" is
\* part of the line ending); a last piece without "\n" is a line when it is
\* not empty
RECURSIVE Lines(_)
Lines(text) ==
    LET i == Find(text, <<"\n">>)
        StripCr(l) == IF EndsWith(l, <<"\r">>) THEN SubSeq(l, 1, Len(l) - 1) ELSE l
    IN  IF text = <<>> THEN <<>>
        ELSE IF i = 0 THEN <<text>>
        ELSE <<StripCr(SubSeq(text, 1, i - 1))>> \o Lines(SubSeq(text, i + 1, Len(text)))

\* Path::extension: the part of the file name after its last ".", none when
\* the name has no "." or only a leading one.  NoExt stands for None.
NoExt == <<"<none>">>

RECURSIVE LastDot(_, _)
LastDot(name, i) ==
    IF i = 0 THEN 0 ELSE IF name[i] = "." THEN i ELSE LastDot(name, i - 1)

Extension(name) ==
    LET d == LastDot(name, Len(name))
    IN  IF d <= 1 THEN NoExt ELSE SubSeq(name, d + 1, Len(name))

----------------------------------------------------------------------------
(* The per-line rules of get_sentences (lib.rs:24-76).  st is the record   *)
(* of the loop's mutable locals: sentences, sentence, in_code_block,       *)
(* in_preamble.                                                            *)

Heading == <<"#">>
PreambleMark == <<"-", "-", "-">>
\* U+0060, which a TLA+ string cannot hold, is written "bt"
Backtick == "bt"
Fence == <<Backtick, Backtick, Backtick>>
Stop == <<".", " ">>
Period == <<".">>

\* lib.rs:20-23
NewState ==
    [sentences |-> <<>>, sentence |-> <<>>,
     in_code_block |-> FALSE, in_preamble |-> FALSE]

\* Skipped, had the heading rule (lib.rs:28-30) been left out
SkippedBlankOnly(line) == IsEmpty(line)

\* lib.rs:25-30: the line is skipped
Skipped(line) == IsEmpty(line) \/ StartsWith(line, Heading)

\* PreambleStep, had it also emptied the accumulator
PreambleStepReset(st) ==
    [st EXCEPT !.in_preamble = ~st.in_preamble, !.sentence = <<>>]

\* PreambleStep, had it set the flag instead of toggling it
PreambleStepSet(st) == [st EXCEPT !.in_preamble = TRUE]

\* lib.rs:31-34
PreambleStep(st) == [st EXCEPT !.in_preamble = ~st.in_preamble]

\* lib.rs:38-45
FenceStep(st) ==
    IF st.in_code_block
    THEN [st EXCEPT !.sentences = Append(st.sentences, st.sentence),
                    !.sentence = <<>>,
                    !.in_code_block = FALSE]
    ELSE [st EXCEPT !.in_code_block = TRUE]

\* lib.rs:46: the line is split into sentences
Splits(st, line) == Contains(line, Stop) /\ ~st.in_code_block

\* SplitLoop, had it appended the last fragment without the space
RECURSIVE SplitLoopNoSpace(_, _, _, _)
SplitLoopNoSpace(parts, idx, count, st) ==
    IF idx >= Len(parts) THEN st
    ELSE LET sentence_part == parts[idx + 1] IN
         IF IsEmpty(sentence_part) THEN SplitLoopNoSpace(parts, idx + 1, count, st)
         ELSE IF idx < count - 1
         THEN SplitLoopNoSpace(parts, idx + 1, count,
                  [st EXCEPT !.sentences =
                                 Append(st.sentences, st.sentence \o sentence_part \o Period),
                             !.sentence = <<>>])
         ELSE SplitLoopNoSpace(parts, idx + 1, count,
                  [st EXCEPT !.sentence = st.sentence \o sentence_part])

\* SplitLoop, had it not emptied the accumulator after a push
RECURSIVE SplitLoopKeepAcc(_, _, _, _)
SplitLoopKeepAcc(parts, idx, count, st) ==
    IF idx >= Len(parts) THEN st
    ELSE LET sentence_part == parts[idx + 1] IN
         IF IsEmpty(sentence_part) THEN SplitLoopKeepAcc(parts, idx + 1, count, st)
         ELSE IF idx < count - 1
         THEN SplitLoopKeepAcc(parts, idx + 1, count,
                  [st EXCEPT !.sentences =
                                 Append(st.sentences, st.sentence \o sentence_part \o Period),
                             !.sentence = st.sentence \o sentence_part \o Period])
         ELSE SplitLoopKeepAcc(parts, idx + 1, count,
                  [st EXCEPT !.sentence = st.sentence \o sentence_part \o <<" ">>])

\* SplitLoop, had it put each finished sentence in front of the list
RECURSIVE SplitLoopPrepend(_, _, _, _)
SplitLoopPrepend(parts, idx, count, st) ==
    IF idx >= Len(parts) THEN st
    ELSE LET sentence_part == parts[idx + 1] IN
         IF IsEmpty(sentence_part) THEN SplitLoopPrepend(parts, idx + 1, count, st)
         ELSE IF idx < count - 1
         THEN SplitLoopPrepend(parts, idx + 1, count,
                  [st EXCEPT !.sentences =
                                 <<st.sentence \o sentence_part \o Period>> \o st.sentences,
                             !.sentence = <<>>])
         ELSE SplitLoopPrepend(parts, idx + 1, count,
                  [st EXCEPT !.sentence = st.sentence \o sentence_part \o <<" ">>])

\* lib.rs:49-61: the loop over line.enumerate(); idx counts from 0
RECURSIVE SplitLoop(_, _, _, _)
SplitLoop(parts, idx, count, st) ==
    IF idx >= Len(parts) THEN st
    ELSE LET sentence_part == parts[idx + 1] IN
         IF IsEmpty(sentence_part) THEN SplitLoop(parts, idx + 1, count, st)
         ELSE IF idx < count - 1
         THEN SplitLoop(parts, idx + 1, count,
                  [st EXCEPT !.sentences =
                                 Append(st.sentences, st.sentence \o sentence_part \o Period),
                             !.sentence = <<>>])
         ELSE SplitLoop(parts, idx + 1, count,
                  [st EXCEPT !.sentence = st.sentence \o sentence_part \o <<" ">>])

\* lib.rs:47-62
SplitStep(st, line) ==
    LET parts == Split(line, Stop)
        count == Len(parts)
    IN  SplitLoop(parts, 0, count, st)

\* TextStep, had it ended every unfinished line with a space, in a code
\* block too
TextStepAlwaysSpace(st, line) ==
    IF EndsWith(line, Period)
    THEN [st EXCEPT !.sentences = Append(st.sentences, st.sentence \o line),
                    !.sentence = <<>>]
    ELSE [st EXCEPT !.sentence = st.sentence \o line \o <<" ">>]

\* lib.rs:64-75
TextStep(st, line) ==
    IF EndsWith(line, Period)
    THEN [st EXCEPT !.sentences = Append(st.sentences, st.sentence \o line),
                    !.sentence = <<>>]
    ELSE [st EXCEPT !.sentence =
              st.sentence \o line \o (IF st.in_code_block THEN <<"\n">> ELSE <<" ">>)]

\* LineStep, had the fence rule (lib.rs:38-45) been put before the
\* in_preamble rule (lib.rs:35-37)
LineStepFenceFirst(st, line) ==
    IF Skipped(line) THEN st
    ELSE IF StartsWith(line, PreambleMark) THEN PreambleStep(st)
    ELSE IF StartsWith(line, Fence) THEN FenceStep(st)
    ELSE IF st.in_preamble THEN st
    ELSE IF Splits(st, line) THEN SplitStep(st, line)
    ELSE TextStep(st, line)

\* lib.rs:25-75: the body of `for line in article.lines()`
LineStep(st, line) ==
    IF Skipped(line) THEN st
    ELSE IF StartsWith(line, PreambleMark) THEN PreambleStep(st)
    ELSE IF st.in_preamble THEN st
    ELSE IF StartsWith(line, Fence) THEN FenceStep(st)
    ELSE IF Splits(st, line) THEN SplitStep(st, line)
    ELSE TextStep(st, line)

\* lib.rs:20-76: the locals after the line loop has read the lines ls
RECURSIVE Run(_)
Run(ls) ==
    IF ls = <<>> THEN NewState
    ELSE LineStep(Run(SubSeq(ls, 1, Len(ls) - 1)), ls[Len(ls)])

----------------------------------------------------------------------------
(* The inputs: articles (file contents) and file systems.                  *)

\* the characters generated lines are made of
Alphabet == {"a", ".", " "}

\* every string over Alphabet of at most n characters
StringsUpTo(n) == UNION {[1..k -> Alphabet] : k \in 0..n}

\* lines the rules treat specially, and near misses of them
MarkerLines ==
    { <<"#">>, <<"#", "a">>, <<"a", "#">>,
      PreambleMark, PreambleMark \o <<"a">>, <<"-", "-">>, <<"-", "-", "a", ".">>,
      Fence, Fence \o <<"a">>, <<Backtick, Backtick>>, <<Backtick, Backtick, "a", ".">> }

\* lines of the generated articles of full length
LinePool ==
    { <<>>, <<"#", "a">>, PreambleMark, Fence,
      <<"a">>, <<"a", ".">>, <<"a", ".", " ", "a">>, <<".", " ", "a">> }

\* what is read before a line of StringsUpTo(MaxLineLen) or MarkerLines, to
\* bring the parser into each of its states
Prefixes ==
    { <<>>, <<PreambleMark>>, <<Fence>>, <<<<"a">>>>,
      <<Fence, PreambleMark>>, <<<<"a">>, Fence>> }

ArticleLines ==
    UNION {[1..k -> LinePool] : k \in 0..MaxLines}
    \cup {p \o <<l>> : p \in Prefixes, l \in StringsUpTo(MaxLineLen) \cup MarkerLines}

\* the text of a file whose lines are ls, each ended by "\n"
RECURSIVE TextOf(_)
TextOf(ls) == IF ls = <<>> THEN <<>> ELSE Head(ls) \o <<"\n">> \o TextOf(Tail(ls))

\* "The cat sat. The dog ran.\n"
TextCatDog ==
    <<"T", "h", "e", " ", "c", "a", "t", " ", "s", "a", "t", ".", " ", "T",
      "h", "e", " ", "d", "o", "g", " ", "r", "a", "n", ".", "\n">>

\* "# Title\n\nSome text here.\n"
TextTitle ==
    <<"#", " ", "T", "i", "t", "l", "e", "\n", "\n", "S", "o", "m", "e", " ",
      "t", "e", "x", "t", " ", "h", "e", "r", "e", ".", "\n">>

\* "---\ntitle: X\n---\nBody sentence.\n"
TextFrontMatter ==
    <<"-", "-", "-", "\n", "t", "i", "t", "l", "e", ":", " ", "X", "\n", "-",
      "-", "-", "\n", "B", "o", "d", "y", " ", "s", "e", "n", "t", "e", "n",
      "c", "e", ".", "\n">>

\* "```\nlet x = 1;\nlet y = 2;\n```\n"
TextCode ==
    <<Backtick, Backtick, Backtick, "\n", "l", "e", "t", " ", "x", " ", "=",
      " ", "1", ";", "\n", "l", "e", "t", " ", "y", " ", "=", " ", "2", ";",
      "\n", Backtick, Backtick, Backtick, "\n">>

\* "a b.\r\n\r\nb. a": CRLF line ends, no line end after the last line
TextCrLf ==
    <<"a", " ", "b", ".", "\r", "\n", "\r", "\n", "b", ".", " ", "a">>

\* "w\nab. c. . d\n": a line of four fragments, the third one empty
TextSplit ==
    <<"w", "\n", "a", "b", ".", " ", "c", ".", " ", ".", " ", "d", "\n">>

ScenarioTexts ==
    {TextCatDog, TextTitle, TextFrontMatter, TextCode, TextCrLf, TextSplit}

Texts == {TextOf(ls) : ls \in ArticleLines} \cup ScenarioTexts

\* contents of the files of directories with several entries
SmallTexts ==
    { TextOf(<<<<"a", ".">>>>),
      TextOf(<<Fence, <<"a">>>>),
      TextOf(<<<<"a">>, Fence, <<"a", ".", " ", "a">>, Fence>>) }

\* file names: "a.md", "b.md", "a.MD", "a.txt", "a" and ".md"
NameMd == <<"a", ".", "m", "d">>
NameMd2 == <<"b", ".", "m", "d">>
NameUpper == <<"a", ".", "M", "D">>
NameTxt == <<"a", ".", "t", "x", "t">>
NameBare == <<"a">>
NameDot == <<".", "m", "d">>

\* a directory entry: kind "file" (a regular file), "dir" (a subdirectory) or
\* "err" (the iterator of read_dir yields an io::Error); read tells whether
\* read_to_string succeeds ("ok") or fails (cannot be opened: "denied", not
\* valid UTF-8: "not_utf8")
File(name, read, content) ==
    [kind |-> "file", name |-> name, read |-> read, content |-> content]

Dir(name) == [kind |-> "dir", name |-> name, read |-> "denied", content |-> <<>>]

ErrEntry == [kind |-> "err", name |-> <<>>, read |-> "denied", content |-> <<>>]

Entries ==
    {File(n, "ok", t) : n \in {NameMd, NameMd2}, t \in SmallTexts}
    \cup { File(NameMd, "denied", <<>>), File(NameMd, "not_utf8", <<>>),
           File(NameUpper, "ok", TextOf(<<<<"a", ".">>>>)),
           File(NameTxt, "ok", TextOf(<<<<"a", ".">>>>)),
           File(NameBare, "ok", TextOf(<<<<"a", ".">>>>)),
           File(NameDot, "ok", TextOf(<<<<"a", ".">>>>)),
           Dir(NameBare), Dir(NameMd), ErrEntry }

\* what `path` names: a directory ("dir") with its entries in the order
\* read_dir yields them, a regular file ("file"), or nothing ("missing")
Directory(es) == [root |-> "dir", entries |-> es, self |-> Dir(<<>>)]

SingleFile(f) == [root |-> "file", entries |-> <<>>, self |-> f]

Missing == [root |-> "missing", entries |-> <<>>, self |-> Dir(<<>>)]

FileSystems ==
    {Directory(<<File(NameMd, "ok", t)>>) : t \in Texts}
    \cup {Directory(es) : es \in UNION {[1..k -> Entries] : k \in 0..MaxEntries}}
    \cup {SingleFile(File(NameMd, "ok", t)) : t \in SmallTexts}
    \cup {Missing}

----------------------------------------------------------------------------
(* get_sentences (lib.rs:3-80).                                            *)

\* Path::is_file
IsFile(e) == e.kind = "file"

Md == <<"m", "d">>

\* the locals of the line loop, as a record
ParserState ==
    [sentences |-> sentences, sentence |-> sentence,
     in_code_block |-> in_code_block, in_preamble |-> in_preamble]

Init ==
    /\ fs \in FileSystems
    /\ prog \in {"lib", "main"}
    /\ pc = "read_dir"
    /\ result = "none"
    /\ printed = <<>>
    /\ entry_idx = 1
    /\ files = <<>>
    /\ contents = <<>>
    /\ parsed = <<>>
    /\ article_idx = 1
    /\ lines = <<>>
    /\ line_idx = 1
    /\ sentences = <<>>
    /\ sentence = <<>>
    /\ in_code_block = FALSE
    /\ in_preamble = FALSE

\* lib.rs:5: path.read_dir().unwrap()
ReadDir ==
    /\ prog = "lib"
    /\ pc = "read_dir"
    /\ pc' = IF fs.root = "dir" THEN "list" ELSE "panic"
    /\ UNCHANGED <<fs, prog, result, printed, entry_idx, files, contents, parsed, article_idx, lines,
                   line_idx, sentences, sentence, in_code_block, in_preamble>>

\* Selects, had it compared the extension without regard to case
SelectsAnyCase(e) ==
    IF ~IsFile(e) THEN "no"
    ELSE IF Extension(e.name) = NoExt THEN "panic"
    ELSE IF Extension(e.name) \in {Md, <<"M", "D">>} THEN "yes"
    ELSE "no"

\* lib.rs:7: path.is_file() && path.extension().unwrap() == "md"; "panic"
\* when the unwrap meets None
Selects(e) ==
    IF ~IsFile(e) THEN "no"
    ELSE IF Extension(e.name) = NoExt THEN "panic"
    ELSE IF Extension(e.name) = Md THEN "yes"
    ELSE "no"

\* lib.rs:5-10: one turn of `for entry in path.read_dir().unwrap()`
ListEntry ==
    /\ prog = "lib"
    /\ pc = "list"
    /\ IF entry_idx > Len(fs.entries)
       THEN /\ pc' = "read"
            /\ entry_idx' = 1
            /\ UNCHANGED files
       ELSE LET e == fs.entries[entry_idx] IN
            IF e.kind = "err" \/ Selects(e) = "panic"
            THEN /\ pc' = "panic"
                 /\ UNCHANGED <<entry_idx, files>>
            ELSE /\ pc' = "list"
                 /\ entry_idx' = entry_idx + 1
                 /\ files' = IF Selects(e) = "yes" THEN Append(files, entry_idx) ELSE files
    /\ UNCHANGED <<fs, prog, result, printed, contents, parsed, article_idx, lines, line_idx,
                   sentences, sentence, in_code_block, in_preamble>>

\* ReadFile, had it passed over a file that cannot be read
ReadFileSkipUnreadable ==
    /\ prog = "lib"
    /\ pc = "read"
    /\ IF entry_idx > Len(files)
       THEN /\ pc' = "articles"
            /\ UNCHANGED <<entry_idx, contents>>
       ELSE LET e == fs.entries[files[entry_idx]] IN
            /\ pc' = "read"
            /\ entry_idx' = entry_idx + 1
            /\ contents' = IF e.read = "ok" THEN Append(contents, e.content) ELSE contents
    /\ UNCHANGED <<fs, prog, result, printed, files, parsed, article_idx, lines,
                   line_idx, sentences, sentence, in_code_block, in_preamble>>

\* lib.rs:12-15: one turn of `for file in files`; entry_idx counts the files
ReadFile ==
    /\ prog = "lib"
    /\ pc = "read"
    /\ IF entry_idx > Len(files)
       THEN /\ pc' = "articles"
            /\ UNCHANGED <<entry_idx, contents>>
       ELSE LET e == fs.entries[files[entry_idx]] IN
            IF e.read = "ok"
            THEN /\ pc' = "read"
                 /\ entry_idx' = entry_idx + 1
                 /\ contents' = Append(contents, e.content)
            ELSE /\ pc' = "panic"
                 /\ UNCHANGED <<entry_idx, contents>>
    /\ UNCHANGED <<fs, prog, result, printed, files, parsed, article_idx, lines, line_idx,
                   sentences, sentence, in_code_block, in_preamble>>

\* NextArticle, had the accumulator and the two flags been declared outside
\* the article loop
NextArticleKeepState ==
    /\ prog = "lib"
    /\ pc = "articles"
    /\ IF article_idx > Len(contents)
       THEN /\ pc' = "done"
            /\ UNCHANGED <<article_idx, lines, line_idx, sentences, sentence,
                           in_code_block, in_preamble>>
       ELSE /\ pc' = "lines"
            /\ article_idx' = article_idx + 1
            /\ lines' = Lines(contents[article_idx])
            /\ line_idx' = 1
            /\ sentences' = NewState.sentences
            /\ UNCHANGED <<sentence, in_code_block, in_preamble>>
    /\ UNCHANGED <<fs, prog, result, printed, entry_idx, files, contents, parsed>>

\* lib.rs:19-24 and 79: one turn of `for article in contents`, up to the
\* line loop; `parsed` is returned when the articles are exhausted
NextArticle ==
    /\ prog = "lib"
    /\ pc = "articles"
    /\ IF article_idx > Len(contents)
       THEN /\ pc' = "done"
            /\ UNCHANGED <<article_idx, lines, line_idx, sentences, sentence,
                           in_code_block, in_preamble>>
       ELSE /\ pc' = "lines"
            /\ article_idx' = article_idx + 1
            /\ lines' = Lines(contents[article_idx])
            /\ line_idx' = 1
            /\ sentences' = NewState.sentences
            /\ sentence' = NewState.sentence
            /\ in_code_block' = NewState.in_code_block
            /\ in_preamble' = NewState.in_preamble
    /\ UNCHANGED <<fs, prog, result, printed, entry_idx, files, contents, parsed>>

\* NextLine, had it pushed what is left in `sentence` when the lines run out
NextLineFlush ==
    /\ prog = "lib"
    /\ pc = "lines"
    /\ IF line_idx > Len(lines)
       THEN /\ pc' = "articles"
            /\ parsed' = Append(parsed, IF sentence = <<>> THEN sentences
                                        ELSE Append(sentences, sentence))
            /\ UNCHANGED <<line_idx, sentences, sentence, in_code_block, in_preamble>>
       ELSE LET st == LineStep(ParserState, lines[line_idx]) IN
            /\ pc' = "lines"
            /\ line_idx' = line_idx + 1
            /\ sentences' = st.sentences
            /\ sentence' = st.sentence
            /\ in_code_block' = st.in_code_block
            /\ in_preamble' = st.in_preamble
            /\ UNCHANGED parsed
    /\ UNCHANGED <<fs, prog, result, printed, entry_idx, files, contents, article_idx, lines>>

\* NextLine, had it treated an article that ends inside a code block or a
\* preamble as an error
NextLineStrict ==
    /\ prog = "lib"
    /\ pc = "lines"
    /\ IF line_idx > Len(lines)
       THEN /\ pc' = IF in_code_block \/ in_preamble THEN "panic" ELSE "articles"
            /\ parsed' = IF in_code_block \/ in_preamble THEN parsed
                          ELSE Append(parsed, sentences)
            /\ UNCHANGED <<line_idx, sentences, sentence, in_code_block, in_preamble>>
       ELSE LET st == LineStep(ParserState, lines[line_idx]) IN
            /\ pc' = "lines"
            /\ line_idx' = line_idx + 1
            /\ sentences' = st.sentences
            /\ sentence' = st.sentence
            /\ in_code_block' = st.in_code_block
            /\ in_preamble' = st.in_preamble
            /\ UNCHANGED parsed
    /\ UNCHANGED <<fs, prog, result, printed, entry_idx, files, contents, article_idx, lines>>

\* lib.rs:24-77: one turn of `for line in article.lines()`; the sentences
\* are pushed to `parsed` when the lines are exhausted
NextLine ==
    /\ prog = "lib"
    /\ pc = "lines"
    /\ IF line_idx > Len(lines)
       THEN /\ pc' = "articles"
            /\ parsed' = Append(parsed, sentences)
            /\ UNCHANGED <<line_idx, sentences, sentence, in_code_block, in_preamble>>
       ELSE LET st == LineStep(ParserState, lines[line_idx]) IN
            /\ pc' = "lines"
            /\ line_idx' = line_idx + 1
            /\ sentences' = st.sentences
            /\ sentence' = st.sentence
            /\ in_code_block' = st.in_code_block
            /\ in_preamble' = st.in_preamble
            /\ UNCHANGED parsed
    /\ UNCHANGED <<fs, prog, result, printed, entry_idx, files, contents, article_idx, lines>>

----------------------------------------------------------------------------
(* The per-line rules of parse_markdown_to_sentences (main.rs:32-89).      *)

\* main.rs:28-31
MdNewState ==
    [sentences |-> <<>>, sentence |-> <<>>,
     in_code_block |-> FALSE, in_preamble |-> FALSE]

\* main.rs:33-40
MdSkipped(line) == IsEmpty(line) \/ StartsWith(line, Heading)

\* main.rs:41-45
MdPreambleStep(st) == [st EXCEPT !.in_preamble = ~st.in_preamble]

\* main.rs:49-57
MdFenceStep(st) ==
    IF st.in_code_block
    THEN [st EXCEPT !.sentences = Append(st.sentences, st.sentence),
                    !.sentence = <<>>,
                    !.in_code_block = FALSE]
    ELSE [st EXCEPT !.in_code_block = TRUE]

\* main.rs:59
MdSplits(st, line) == Contains(line, Stop) /\ ~st.in_code_block

\* main.rs:62-74
RECURSIVE MdSplitLoop(_, _, _, _)
MdSplitLoop(parts, idx, count, st) ==
    IF idx >= Len(parts) THEN st
    ELSE LET sentence_part == parts[idx + 1] IN
         IF IsEmpty(sentence_part) THEN MdSplitLoop(parts, idx + 1, count, st)
         ELSE IF idx < count - 1
         THEN MdSplitLoop(parts, idx + 1, count,
                  [st EXCEPT !.sentences =
                                 Append(st.sentences, st.sentence \o sentence_part \o Period),
                             !.sentence = <<>>])
         ELSE MdSplitLoop(parts, idx + 1, count,
                  [st EXCEPT !.sentence = st.sentence \o sentence_part \o <<" ">>])

\* main.rs:60-75
MdSplitStep(st, line) ==
    LET parts == Split(line, Stop)
        count == Len(parts)
    IN  MdSplitLoop(parts, 0, count, st)

\* MdTextStep, had the copy in main.rs ended every unfinished line with a
\* space
MdTextStepSpaceOnly(st, line) ==
    IF EndsWith(line, Period)
    THEN [st EXCEPT !.sentences = Append(st.sentences, st.sentence \o line),
                    !.sentence = <<>>]
    ELSE [st EXCEPT !.sentence = st.sentence \o line \o <<" ">>]

\* main.rs:77-88
MdTextStep(st, line) ==
    IF EndsWith(line, Period)
    THEN [st EXCEPT !.sentences = Append(st.sentences, st.sentence \o line),
                    !.sentence = <<>>]
    ELSE [st EXCEPT !.sentence =
              st.sentence \o line \o (IF st.in_code_block THEN <<"\n">> ELSE <<" ">>)]

\* main.rs:33-88: the body of `for line in content.lines()`
MdLineStep(st, line) ==
    IF MdSkipped(line) THEN st
    ELSE IF StartsWith(line, PreambleMark) THEN MdPreambleStep(st)
    ELSE IF st.in_preamble THEN st
    ELSE IF StartsWith(line, Fence) THEN MdFenceStep(st)
    ELSE IF MdSplits(st, line) THEN MdSplitStep(st, line)
    ELSE MdTextStep(st, line)

\* main.rs:28-89: the locals after the line loop has read the lines ls
RECURSIVE MdRun(_)
MdRun(ls) ==
    IF ls = <<>> THEN MdNewState
    ELSE MdLineStep(MdRun(SubSeq(ls, 1, Len(ls) - 1)), ls[Len(ls)])

----------------------------------------------------------------------------
(* main (main.rs:93-107) and the functions it calls.                       *)

\* main.rs:11: path.is_file() && path.extension().map(|e| e == ext).unwrap_or(false)
MdSelects(e, ext) ==
    IsFile(e) /\ (IF Extension(e.name) = NoExt THEN FALSE ELSE Extension(e.name) = ext)

\* main.rs:94 and 9: get_markdown_files is called; `path.read_dir()?`
MainReadDir ==
    /\ prog = "main"
    /\ pc = "read_dir"
    /\ IF fs.root = "dir"
       THEN pc' = "list" /\ UNCHANGED result
       ELSE pc' = "expect_files" /\ result' = "err"
    /\ UNCHANGED <<fs, prog, printed, entry_idx, files, contents, parsed,
                   article_idx, lines, line_idx, sentences, sentence,
                   in_code_block, in_preamble>>

\* main.rs:9-15: one turn of `for entry in path.read_dir()?`; Ok(files) when
\* the entries are exhausted, the Err of `entry?` drops files
MainListEntry ==
    /\ prog = "main"
    /\ pc = "list"
    /\ IF entry_idx > Len(fs.entries)
       THEN /\ pc' = "expect_files"
            /\ result' = "ok"
            /\ UNCHANGED <<entry_idx, files>>
       ELSE LET e == fs.entries[entry_idx] IN
            IF e.kind = "err"
            THEN /\ pc' = "expect_files"
                 /\ result' = "err"
                 /\ files' = <<>>
                 /\ UNCHANGED entry_idx
            ELSE /\ pc' = "list"
                 /\ entry_idx' = entry_idx + 1
                 /\ files' = IF MdSelects(e, Md) THEN Append(files, entry_idx) ELSE files
                 /\ UNCHANGED result
    /\ UNCHANGED <<fs, prog, printed, contents, parsed, article_idx, lines,
                   line_idx, sentences, sentence, in_code_block, in_preamble>>

\* main.rs:95: files.expect("No Markdown files found"), then read_files is
\* called
MainExpectFiles ==
    /\ prog = "main"
    /\ pc = "expect_files"
    /\ IF result = "err"
       THEN pc' = "panic" /\ UNCHANGED entry_idx
       ELSE pc' = "read" /\ entry_idx' = 1
    /\ UNCHANGED <<fs, prog, result, printed, files, contents, parsed,
                   article_idx, lines, line_idx, sentences, sentence,
                   in_code_block, in_preamble>>

\* main.rs:20-24: one turn of `for file in files`; Ok(contents) when the
\* files are exhausted, the Err of `read_to_string(file)?` drops contents
MainReadFile ==
    /\ prog = "main"
    /\ pc = "read"
    /\ IF entry_idx > Len(files)
       THEN /\ pc' = "expect_contents"
            /\ result' = "ok"
            /\ UNCHANGED <<entry_idx, contents>>
       ELSE LET e == fs.entries[files[entry_idx]] IN
            IF e.read = "ok"
            THEN /\ pc' = "read"
                 /\ entry_idx' = entry_idx + 1
                 /\ contents' = Append(contents, e.content)
                 /\ UNCHANGED result
            ELSE /\ pc' = "expect_contents"
                 /\ result' = "err"
                 /\ contents' = <<>>
                 /\ UNCHANGED entry_idx
    /\ UNCHANGED <<fs, prog, printed, files, parsed, article_idx, lines,
                   line_idx, sentences, sentence, in_code_block, in_preamble>>

\* main.rs:101-103 and 27-32: files.expect("Error reading files"),
\* files.last().expect("No files found"), and parse_markdown_to_sentences is
\* called on the last file's content
MainParseLast ==
    /\ prog = "main"
    /\ pc = "expect_contents"
    /\ IF result = "err" \/ contents = <<>>
       THEN /\ pc' = "panic"
            /\ UNCHANGED <<lines, line_idx, sentences, sentence, in_code_block,
                           in_preamble>>
       ELSE /\ pc' = "lines"
            /\ lines' = Lines(contents[Len(contents)])
            /\ line_idx' = 1
            /\ sentences' = MdNewState.sentences
            /\ sentence' = MdNewState.sentence
            /\ in_code_block' = MdNewState.in_code_block
            /\ in_preamble' = MdNewState.in_preamble
    /\ UNCHANGED <<fs, prog, result, printed, entry_idx, files, contents,
                   parsed, article_idx>>

\* main.rs:32-90: one turn of `for line in content.lines()`; `sentences` is
\* returned when the lines are exhausted
MainNextLine ==
    /\ prog = "main"
    /\ pc = "lines"
    /\ IF line_idx > Len(lines)
       THEN /\ pc' = "print"
            /\ line_idx' = 1
            /\ UNCHANGED <<sentences, sentence, in_code_block, in_preamble>>
       ELSE LET st == MdLineStep(ParserState, lines[line_idx]) IN
            /\ pc' = "lines"
            /\ line_idx' = line_idx + 1
            /\ sentences' = st.sentences
            /\ sentence' = st.sentence
            /\ in_code_block' = st.in_code_block
            /\ in_preamble' = st.in_preamble
    /\ UNCHANGED <<fs, prog, result, printed, entry_idx, files, contents,
                   parsed, article_idx, lines>>

\* main.rs:104-106: one turn of `for (i, sentence) in sentences...enumerate()`;
\* line_idx - 1 is i
MainPrint ==
    /\ prog = "main"
    /\ pc = "print"
    /\ IF line_idx > Len(sentences)
       THEN pc' = "done" /\ UNCHANGED <<printed, line_idx>>
       ELSE /\ pc' = "print"
            /\ printed' = Append(printed, <<line_idx - 1, sentences[line_idx]>>)
            /\ line_idx' = line_idx + 1
    /\ UNCHANGED <<fs, prog, result, entry_idx, files, contents, parsed,
                   article_idx, lines, sentences, sentence, in_code_block,
                   in_preamble>>

Next ==
    \/ ReadDir \/ ListEntry \/ ReadFile \/ NextArticle \/ NextLine
    \/ MainReadDir \/ MainListEntry \/ MainExpectFiles \/ MainReadFile
    \/ MainParseLast \/ MainNextLine \/ MainPrint

Spec == Init /\ [][Next]_vars

----------------------------------------------------------------------------
(* Properties.                                                             *)

\* a line is about to be read by the line loop of either program
Reading == pc = "lines" /\ line_idx <= Len(lines)

\* the line last read by the line loop
JustRead == pc = "lines" /\ line_idx > 1

\* the number of lines before line k that begin with "---"
MarksBefore(ls, k) ==
    Cardinality({i \in 1..(k - 1) : Len(ls[i]) >= 3 /\ SubSeq(ls[i], 1, 3) = <<"-", "-", "-">>})

\* line k lies after the opening line of a "---" pair (the 1st, 3rd, ... line
\* that begins with "---") and before the pair's closing line
InsideMarks(ls, k) ==
    /\ ~(Len(ls[k]) >= 3 /\ SubSeq(ls[k], 1, 3) = <<"-", "-", "-">>)
    /\ MarksBefore(ls, k) % 2 = 1

\* C1: a line that is empty or begins with "#" adds nothing to the
\* accumulator and nothing to the sentences, in whatever state the parser
\* reads it (normal, in a preamble, in a code block).
C1_SkippedLinesAddNothing ==
    [][(Reading /\ (lines[line_idx] = <<>> \/ Head(lines[line_idx]) = "#"))
          => (sentence' = sentence /\ sentences' = sentences)]_vars

\* a "#" line has been read inside a code block that holds text, and the
\* text is still all the accumulator holds
C1_Witness ==
    /\ JustRead
    /\ lines[line_idx - 1] = <<"#", "a">>
    /\ in_code_block
    /\ ~in_preamble
    /\ sentence = <<"a", "\n">>

\* C2: a line between the opening line of a "---" pair and its closing
\* line adds nothing to the accumulator and nothing to the sentences; the
\* pairs are the 1st and 2nd, the 3rd and 4th, ... line beginning with "---",
\* inside a code block as well as outside.
C2_PreambleLinesAddNothing ==
    [][(Reading /\ InsideMarks(lines, line_idx))
          => (sentence' = sentence /\ sentences' = sentences)]_vars

\* a line ending a sentence has been read between a "---" pair that lies
\* inside a code block
C2_Witness ==
    /\ JustRead
    /\ line_idx <= Len(lines)
    /\ lines[line_idx - 1] = <<"a", ".">>
    /\ InsideMarks(lines, line_idx - 1)
    /\ lines[line_idx] = <<"-", "-", "-">>
    /\ in_code_block
    /\ sentences = <<>>

\* the locals of the running program's line loop after the first k lines
After(k) ==
    IF prog = "lib" THEN Run(SubSeq(lines, 1, k)) ELSE MdRun(SubSeq(lines, 1, k))

\* line k begins with three backticks
IsFenceLine(k) == Len(lines[k]) >= 3 /\ SubSeq(lines[k], 1, 3) = <<Backtick, Backtick, Backtick>>

\* line k opens a code block: a fence line read outside a preamble and
\* outside a code block
Opens(k) ==
    /\ IsFenceLine(k)
    /\ ~After(k - 1).in_preamble
    /\ ~After(k - 1).in_code_block

\* line k closes a code block: a fence line read outside a preamble and
\* inside a code block
Closes(k) ==
    /\ IsFenceLine(k)
    /\ ~After(k - 1).in_preamble
    /\ After(k - 1).in_code_block

\* the opening fence of the block that is open before line j
OpenFence(j) == CHOOSE i \in 1..(j - 1) : Opens(i) /\ \A k \in (i + 1)..(j - 1) : ~Opens(k)

\* strings joined with "\n" between them
RECURSIVE JoinNl(_)
JoinNl(ss) ==
    IF ss = <<>> THEN <<>>
    ELSE IF Len(ss) = 1 THEN ss[1]
    ELSE ss[1] \o <<"\n">> \o JoinNl(Tail(ss))

\* C3: when a closing fence has been read, the sentences pushed since the
\* opening fence, joined with newlines, are line for line the source lines
\* between the two fences, and nothing else.
C3_BlockRoundTrip ==
    (JustRead /\ Closes(line_idx - 1)) =>
        LET j == line_idx - 1
            i == OpenFence(j)
            before == Len(After(i).sentences)
            region == SubSeq(sentences, before + 1, Len(sentences))
        IN  Lines(JoinNl(region)) = SubSeq(lines, i + 1, j - 1)

\* C4: a code block that is closed gives exactly one sentence: inside the
\* block no line but the closing fence pushes a sentence, and the closing
\* fence pushes the block's lines, each followed by a newline.
C4_OneSentencePerBlock ==
    [][(Reading /\ in_code_block /\ \E c \in line_idx..Len(lines) : Closes(c)) =>
          IF Closes(line_idx)
          THEN sentences' = Append(sentences,
                   TextOf(SubSeq(lines, OpenFence(line_idx) + 1, line_idx - 1)))
          ELSE sentences' = sentences]_vars

\* the articles the finished program has parsed, each with its lines and
\* the sentence sequence produced for it
Outputs ==
    IF pc # "done" THEN <<>>
    ELSE IF prog = "lib"
    THEN [k \in 1..Len(parsed) |->
             [text |-> contents[k], lines |-> Lines(contents[k]), out |-> parsed[k]]]
    ELSE <<[text |-> contents[Len(contents)], lines |-> lines, out |-> sentences]>>

\* "The cat sat."
SentCat ==
    <<"T", "h", "e", " ", "c", "a", "t", " ", "s", "a", "t", ".">>

\* "The dog ran."
SentDog ==
    <<"T", "h", "e", " ", "d", "o", "g", " ", "r", "a", "n", ".">>

\* "Some text here."
SentSome ==
    <<"S", "o", "m", "e", " ", "t", "e", "x", "t", " ", "h", "e", "r", "e",
      ".">>

\* "Body sentence."
SentBody ==
    <<"B", "o", "d", "y", " ", "s", "e", "n", "t", "e", "n", "c", "e", ".">>

\* C5: "The cat sat. The dog ran.\n" gives the two sentences "The cat sat."
\* and "The dog ran.".
C5_CatDogTwoSentences ==
    \A k \in 1..Len(Outputs) :
        Outputs[k].text = TextCatDog => Outputs[k].out = <<SentCat, SentDog>>

\* what the code gives for it: the first sentence alone
C5_CatDogObserved ==
    \A k \in 1..Len(Outputs) :
        Outputs[k].text = TextCatDog => Outputs[k].out = <<SentCat>>

\* kinds of lines, by their first characters
BlankLine(l) == l = <<>>
HeadingLine(l) == l # <<>> /\ l[1] = "#"
MarkLine(l) == Len(l) >= 3 /\ l[1] = "-" /\ l[2] = "-" /\ l[3] = "-"
FenceLine(l) == Len(l) >= 3 /\ l[1] = Backtick /\ l[2] = Backtick /\ l[3] = Backtick
ProseLine(l) == ~BlankLine(l) /\ ~HeadingLine(l) /\ ~MarkLine(l) /\ ~FenceLine(l)

\* the first line after the leading front-matter blocks ("---" line, lines
\* not beginning with "---", "---" line), heading lines and blank lines; 0
\* when the article ends before, or a front-matter block is left open
RECURSIVE ProseStart(_, _, _)
ProseStart(ls, k, in_front) ==
    IF k > Len(ls) THEN 0
    ELSE IF MarkLine(ls[k]) THEN ProseStart(ls, k + 1, ~in_front)
    ELSE IF in_front THEN ProseStart(ls, k + 1, TRUE)
    ELSE IF BlankLine(ls[k]) \/ HeadingLine(ls[k]) THEN ProseStart(ls, k + 1, FALSE)
    ELSE k

\* the position in l of its first sentence-ending period: a "." that is
\* followed by a space or ends the line; 0 when l has none
StopAt(l) ==
    LET ends == {p \in 1..Len(l) : l[p] = "." /\ (p = Len(l) \/ l[p + 1] = " ")}
    IN  IF ends = {} THEN 0 ELSE CHOOSE p \in ends : \A q \in ends : p <= q

\* the first line from line k on that holds a sentence-ending period, the
\* lines from k to it being prose lines; 0 when there is none
RECURSIVE StopLine(_, _)
StopLine(ls, k) ==
    IF k = 0 \/ k > Len(ls) THEN 0
    ELSE IF ~ProseLine(ls[k]) THEN 0
    ELSE IF StopAt(ls[k]) # 0 THEN k
    ELSE StopLine(ls, k + 1)

\* strings joined with single spaces between them
RECURSIVE JoinSp(_)
JoinSp(ss) ==
    IF ss = <<>> THEN <<>>
    ELSE IF Len(ss) = 1 THEN ss[1]
    ELSE ss[1] \o <<" ">> \o JoinSp(Tail(ss))

\* the article begins with front matter, headings and blank lines in any
\* mix, followed by prose lines that hold a sentence-ending period
LeadThenProse(ls) == StopLine(ls, ProseStart(ls, 1, FALSE)) # 0

\* the line of such an article that holds its first sentence-ending period
FirstStopLine(ls) == ls[StopLine(ls, ProseStart(ls, 1, FALSE))]

\* the first prose sentence of such an article: the prose up to and
\* including the first sentence-ending period, lines joined by single spaces
FirstSentence(ls) ==
    LET a == ProseStart(ls, 1, FALSE)
        b == StopLine(ls, a)
    IN  JoinSp(SubSeq(ls, a, b - 1) \o <<SubSeq(ls[b], 1, StopAt(ls[b]))>>)

\* the two articles C6 names give exactly one sentence each
TitleAndFrontMatter ==
    \A k \in 1..Len(Outputs) :
        /\ Outputs[k].text = TextTitle => Outputs[k].out = <<SentSome>>
        /\ Outputs[k].text = TextFrontMatter => Outputs[k].out = <<SentBody>>

\* C6 as stated: for every article that begins with front matter, headings
\* and blank lines followed by prose, the first sentence produced is the
\* first prose sentence.
C6_FirstSentenceAnyProse ==
    /\ \A k \in 1..Len(Outputs) :
           LeadThenProse(Outputs[k].lines) =>
               /\ Outputs[k].out # <<>>
               /\ Outputs[k].out[1] = FirstSentence(Outputs[k].lines)
    /\ TitleAndFrontMatter

\* C6, amended: the same, for the articles in which the line holding the
\* first sentence-ending period does not begin with ". ".
C6_FirstSentence ==
    /\ \A k \in 1..Len(Outputs) :
           (/\ LeadThenProse(Outputs[k].lines)
            /\ ~(Len(FirstStopLine(Outputs[k].lines)) >= 2
                 /\ SubSeq(FirstStopLine(Outputs[k].lines), 1, 2) = <<".", " ">>)) =>
               /\ Outputs[k].out # <<>>
               /\ Outputs[k].out[1] = FirstSentence(Outputs[k].lines)
    /\ TitleAndFrontMatter

\* get_sentences has returned for an article with a front-matter block
\* that holds a sentence, followed by a prose line of two fragments
C6_Witness ==
    /\ pc = "done"
    /\ prog = "lib"
    /\ lines = <<PreambleMark, <<"a", ".">>, PreambleMark, <<"a", ".", " ", "a">>>>
    /\ parsed = <<<<<<"a", ".">>>>>>

\* the name ends in ".md" after at least one other character: a file of
\* extension "md"
EndsInDotMd(name) ==
    /\ Len(name) >= 4
    /\ name[Len(name) - 2] = "."
    /\ name[Len(name) - 1] = "m"
    /\ name[Len(name)] = "d"

\* the positions, in the order of enumeration, of the entries of the
\* directory that are regular files of extension "md"
RECURSIVE MdEntries(_)
MdEntries(k) ==
    IF k = 0 THEN <<>>
    ELSE IF fs.entries[k].kind = "file" /\ EndsInDotMd(fs.entries[k].name)
    THEN Append(MdEntries(k - 1), k)
    ELSE MdEntries(k - 1)

Selected == MdEntries(Len(fs.entries))

\* the directory can be listed and none of its entries is a Markdown file:
\* each is a subdirectory or a regular file that has another extension or
\* none
OnlyNonMarkdown ==
    /\ fs.root = "dir"
    /\ \A i \in 1..Len(fs.entries) : fs.entries[i].kind \in {"file", "dir"}
    /\ Selected = <<>>

\* C7: for a directory whose entries are all non-Markdown, get_sentences
\* does not panic and returns the empty corpus.
C7_NonMarkdownGivesEmptyCorpus ==
    (prog = "lib" /\ OnlyNonMarkdown) =>
        /\ pc # "panic"
        /\ pc = "done" => parsed = <<>>

\* C8: called with the path of a Markdown file, get_sentences does not
\* panic and returns the one-element corpus of that file's sentences.
C8_SingleFileGivesOneArticle ==
    (prog = "lib" /\ fs.root = "file") =>
        /\ pc # "panic"
        /\ pc = "done" => parsed = <<Run(Lines(fs.self.content)).sentences>>

\* C9: the corpus get_sentences returns for a directory has one sentence
\* sequence per entry that is a regular file of extension "md", in the order
\* of enumeration, the i-th being the parse of the i-th such file.
C9_OneSequencePerMdFile ==
    (prog = "lib" /\ pc = "done") =>
        /\ Len(parsed) = Len(Selected)
        /\ \A i \in 1..Len(Selected) :
               parsed[i] = Run(Lines(fs.entries[Selected[i]].content)).sentences

\* get_sentences has returned a corpus of two different sentence sequences
\* for a directory of two Markdown files
C9_Witness ==
    /\ prog = "lib"
    /\ pc = "done"
    /\ Len(fs.entries) = 2
    /\ Len(parsed) = 2
    /\ parsed[1] # parsed[2]

\* the load fails: the directory cannot be listed, or a selected file
\* cannot be read as text
LoadFails ==
    \/ fs.root # "dir"
    \/ \E i \in 1..Len(fs.entries) : fs.entries[i].kind = "err"
    \/ \E i \in 1..Len(Selected) : fs.entries[Selected[i]].read # "ok"

\* C10: when the load fails no article is ever parsed and nothing is
\* returned or printed, however many files were read before the failure;
\* read_files returns no contents with its Err; and parsing begins only when
\* every selected file has been read.
C10_AllOrNothing ==
    /\ LoadFails =>
           /\ pc \notin {"articles", "lines", "print", "done"}
           /\ parsed = <<>>
           /\ sentences = <<>>
           /\ printed = <<>>
    /\ (prog = "main" /\ result = "err") => contents = <<>>
    /\ pc \in {"articles", "lines", "print", "done"} =>
           contents = [i \in 1..Len(Selected) |-> fs.entries[Selected[i]].content]

\* get_sentences has panicked on an unreadable file after it had read
\* another file
C10_Witness ==
    /\ prog = "lib"
    /\ pc = "panic"
    /\ Len(contents) >= 1
    /\ parsed = <<>>

\* the number of pieces a line falls into when it is cut at every ". ",
\* scanning from the left: one more than the number of cuts
RECURSIVE Pieces(_, _)
Pieces(l, from) ==
    IF from + 1 > Len(l) THEN 1
    ELSE IF l[from] = "." /\ l[from + 1] = " " THEN 1 + Pieces(l, from + 2)
    ELSE Pieces(l, from + 1)

\* C11: the parser never fails: while the line loop runs the program always
\* has a next step; a step of the loop reads exactly the next line and stays
\* in the loop, the `count - 1` of a split line being at least 0; and with
\* no line left the loop ends and the sentences are handed on, whatever the
\* state of the parser (open code block, open preamble).
C11_ParserNeverFails ==
    /\ [](pc = "lines" => ENABLED Next)
    /\ [][pc = "lines" =>
            IF line_idx <= Len(lines)
            THEN /\ pc' = "lines"
                 /\ line_idx' = line_idx + 1
                 /\ lines' = lines
                 /\ Pieces(lines[line_idx], 1) - 1 >= 0
                 /\ Len(Split(lines[line_idx], Stop)) = Pieces(lines[line_idx], 1)
            ELSE /\ line_idx = Len(lines) + 1
                 /\ pc' \in {"articles", "print"}]_vars

\* the program has finished on an article that ends inside a code block
\* and inside a preamble
C11_Witness ==
    /\ pc = "done"
    /\ Len(lines) >= 2
    /\ in_code_block
    /\ in_preamble

\* no line of the article ends with ".", none contains ". ", and no fence
\* line closes a code block
NoSentenceEnd ==
    \A k \in 1..Len(lines) :
        /\ ~(lines[k] # <<>> /\ lines[k][Len(lines[k])] = ".")
        /\ Pieces(lines[k], 1) = 1
        /\ ~Closes(k)

\* C12: when the lines run out the accumulator is not emitted: what the
\* parser hands on (lib.rs: the element pushed to `parsed`; main.rs: the
\* sentences that are printed) is the sentence list as the last line left
\* it, whatever `sentence` holds; and an article with no line ending in ".",
\* no ". " and no closing fence hands on the empty sequence.
C12_AccumulatorDropped ==
    [][pc = "lines" /\ line_idx > Len(lines) =>
          /\ sentences' = sentences
          /\ sentences = After(Len(lines)).sentences
          /\ prog = "lib" => parsed' = Append(parsed, sentences)
          /\ prog = "main" => pc' = "print" /\ parsed' = parsed
          /\ NoSentenceEnd => sentences = <<>>]_vars

\* get_sentences has pushed an empty sentence list for the article "a",
\* whose text is still in the accumulator
C12_Witness ==
    /\ prog = "lib"
    /\ pc = "articles"
    /\ lines = <<<<"a">>>>
    /\ sentence = <<"a", " ">>
    /\ parsed # <<>>
    /\ parsed[Len(parsed)] = <<>>

\* the sentences `new`, in their order, end at sentence-ending periods of
\* the line l (a "." followed by a space or ending the line) that lie at
\* increasing positions from `from` on; each is the text of the line from
\* some position after the previous boundary up to its period, the first
\* one preceded by the accumulator acc
RECURSIVE EndsInOrder(_, _, _, _)
EndsInOrder(new, l, acc, from) ==
    IF new = <<>> THEN TRUE
    ELSE \E p \in from..Len(l) : \E b \in from..p :
            /\ l[p] = "."
            /\ (p = Len(l) \/ l[p + 1] = " ")
            /\ Head(new) = acc \o SubSeq(l, b, p)
            /\ EndsInOrder(Tail(new), l, <<>>, p + 1)

\* C13: the sentence list is append-only and ordered by source position:
\* a step of the line loop leaves the sentences it had as a prefix of the
\* new list, and the sentences it adds are, in order, the accumulator
\* alone (closing fence) or texts ending at periods of the line that occur
\* from left to right.
C13_AppendOnlyInOrder ==
    [][pc = "lines" =>
          /\ Len(sentences') >= Len(sentences)
          /\ SubSeq(sentences', 1, Len(sentences)) = sentences
          /\ LET new == SubSeq(sentences', Len(sentences) + 1, Len(sentences')) IN
             IF line_idx > Len(lines) THEN new = <<>>
             ELSE IF Closes(line_idx) THEN new = <<sentence>>
             ELSE EndsInOrder(new, lines[line_idx], sentence, 1)]_vars

\* the line "ab. c. . d" read after "w" has added "w ab." and then "c."
C13_Witness ==
    /\ JustRead
    /\ lines[line_idx - 1] = <<"a", "b", ".", " ", "c", ".", " ", ".", " ", "d">>
    /\ sentences = << <<"w", " ", "a", "b", ".">>, <<"c", ".">> >>
    /\ sentence = <<"d", " ">>

\* C14: the sentences of a document are a function of its text alone: in
\* the line loop the parser's locals are those a parser started afresh
\* reaches on the lines of this document read so far, whatever the documents
\* before it left behind, and two documents of one run that have the same
\* text get the same sentence sequence.
C14_FunctionOfTextAlone ==
    /\ pc = "lines" => ParserState = After(line_idx - 1)
    /\ (pc = "lines" /\ line_idx = 1) =>
           sentences = <<>> /\ sentence = <<>> /\ ~in_code_block /\ ~in_preamble
    /\ prog = "lib" =>
           \A i, j \in 1..Len(parsed) :
               contents[i] = contents[j] => parsed[i] = parsed[j]

\* get_sentences starts on its second document with an empty accumulator
\* and both flags down, the first document having ended inside a code
\* block with text in the accumulator
C14_Witness ==
    /\ prog = "lib"
    /\ pc = "lines"
    /\ line_idx = 1
    /\ article_idx = 3
    /\ Len(parsed) = 1
    /\ Run(Lines(contents[1])).in_code_block
    /\ Run(Lines(contents[1])).sentence # <<>>
    /\ ParserState = NewState

\* C15: the line loop of get_sentences and parse_markdown_to_sentences are
\* the same state machine: on the lines the running program has read, both
\* copies started afresh hold the locals the program holds; from the state
\* reached both take the next line to the same state; and on all the lines
\* of the document they return the same sentences.
C15_CopiesAgree ==
    pc = "lines" =>
        /\ ParserState = Run(SubSeq(lines, 1, line_idx - 1))
        /\ ParserState = MdRun(SubSeq(lines, 1, line_idx - 1))
        /\ line_idx <= Len(lines) =>
               LineStep(ParserState, lines[line_idx])
                   = MdLineStep(ParserState, lines[line_idx])
        /\ Run(lines).sentences = MdRun(lines).sentences

\* main.rs has read a code line after an opening fence, and after it a
\* line that ends a sentence
C15_Witness ==
    /\ prog = "main"
    /\ JustRead
    /\ line_idx = 4
    /\ lines[1] = Fence
    /\ in_code_block
    /\ sentences = << <<"a", "\n", "a", ".">> >>

\* every line beginning with "---" among the lines read so far was read
\* outside a code block
MarksOutsideCode ==
    \A k \in 1..(line_idx - 1) :
        MarkLine(lines[k]) => ~After(k - 1).in_code_block

\* C16: in_code_block and in_preamble are never both true, at any point of
\* the line loop of an article in which every line beginning with "---" has
\* been read while in_code_block was false.
C16_NotBothFlags ==
    (pc = "lines" /\ MarksOutsideCode) => ~(in_code_block /\ in_preamble)

\* a fence line has just been read inside a preamble, opened by a "---"
\* line outside a code block: the preamble is open, no code block is
C16_Witness ==
    /\ JustRead
    /\ MarksOutsideCode
    /\ FenceLine(lines[line_idx - 1])
    /\ \E k \in 1..(line_idx - 2) : MarkLine(lines[k])
    /\ in_preamble
    /\ ~in_code_block

\* C17: skipped lines leave the parser state untouched: a step of the line
\* loop on a blank line, on a line beginning with "#", or, with in_preamble
\* true, on a line not beginning with "---" (a fence line included) changes
\* none of sentence, sentences, in_code_block and in_preamble; a step on a
\* line beginning with "---" negates in_preamble and changes nothing else,
\* inside a code block or not.
C17_SkippedLinesFrame ==
    [][Reading =>
          LET l == lines[line_idx] IN
          /\ (BlankLine(l) \/ HeadingLine(l) \/ (in_preamble /\ ~MarkLine(l))) =>
                 UNCHANGED <<sentence, sentences, in_code_block, in_preamble>>
          /\ MarkLine(l) =>
                 /\ in_preamble' = ~in_preamble
                 /\ UNCHANGED <<sentence, sentences, in_code_block>>]_vars

\* a "---" line has just been read inside a code block that holds text: the
\* preamble is open, the code block and the accumulator are as they were
C17_Witness ==
    /\ JustRead
    /\ line_idx = 4
    /\ lines[1] = Fence
    /\ lines[2] = <<"a">>
    /\ MarkLine(lines[3])
    /\ in_preamble
    /\ in_code_block
    /\ sentence = <<"a", "\n">>
    /\ sentences = <<>>

\* the line loop is about to read a line that none of the rules before the
\* split rule takes (not blank, no "#", "---" or fence at its start, read
\* outside a preamble) and that contains ". "
ReadingStopLine ==
    /\ Reading
    /\ ~in_preamble
    /\ ProseLine(lines[line_idx])
    /\ Pieces(lines[line_idx], 1) > 1

NonEmpty(f) == f # <<>>

\* the non-empty ones of the first N-1 fragments of the line l
InnerFragments(l) ==
    LET parts == Split(l, Stop) IN SelectSeq(SubSeq(parts, 1, Len(parts) - 1), NonEmpty)

LastFragment(l) == LET parts == Split(l, Stop) IN parts[Len(parts)]

\* the sentences the split rule pushes for the line l from the accumulator
\* acc: one per inner fragment, the fragment and a period, the first one
\* preceded by acc
SplitSentences(acc, l) ==
    [j \in 1..Len(InnerFragments(l)) |->
        (IF j = 1 THEN acc ELSE <<>>) \o InnerFragments(l)[j] \o <<".">>]

\* the accumulator after the fragments before the last one
AfterInner(acc, l) == IF InnerFragments(l) = <<>> THEN acc ELSE <<>>

\* C18 as stated: a line containing ". " read outside a code block pushes
\* one sentence per non-empty fragment among the first N-1, and leaves in
\* the accumulator the non-empty last fragment followed by one space (or
\* what the previous fragments left, when the last fragment is empty);
\* inside a code block the line is not split.
C18_SplitRuleAsStated ==
    [][ReadingStopLine =>
          LET l == lines[line_idx] IN
          IF in_code_block
          THEN /\ in_code_block'
               /\ IF l[Len(l)] = "."
                  THEN sentences' = Append(sentences, sentence \o l) /\ sentence' = <<>>
                  ELSE sentences' = sentences /\ sentence' = sentence \o l \o <<"\n">>
          ELSE /\ sentences' = sentences \o SplitSentences(sentence, l)
               /\ sentence' = IF LastFragment(l) = <<>> THEN AfterInner(sentence, l)
                              ELSE LastFragment(l) \o <<" ">>]_vars

\* C18: a line containing ". " read outside a code block pushes one
\* sentence per non-empty fragment among the first N-1, each the accumulator
\* at that moment followed by the fragment and a period, and leaves in the
\* accumulator what the previous fragments left followed, when the last
\* fragment is non-empty, by that fragment and one space; inside a code
\* block the line is not split.
C18_SplitRule ==
    [][ReadingStopLine =>
          LET l == lines[line_idx] IN
          IF in_code_block
          THEN /\ in_code_block'
               /\ IF l[Len(l)] = "."
                  THEN sentences' = Append(sentences, sentence \o l) /\ sentence' = <<>>
                  ELSE sentences' = sentences /\ sentence' = sentence \o l \o <<"\n">>
          ELSE /\ ~in_code_block'
               /\ sentences' = sentences \o SplitSentences(sentence, l)
               /\ sentence' = IF LastFragment(l) = <<>> THEN AfterInner(sentence, l)
                              ELSE AfterInner(sentence, l) \o LastFragment(l) \o <<" ">>]_vars

\* the line ". a" has just been read outside a code block with "a " in the
\* accumulator: nothing is pushed and the accumulator is "a a "
C18_Witness ==
    /\ JustRead
    /\ lines[line_idx - 1] = <<".", " ", "a">>
    /\ After(line_idx - 2).sentence = <<"a", " ">>
    /\ ~After(line_idx - 2).in_code_block
    /\ ~After(line_idx - 2).in_preamble
    /\ sentences = After(line_idx - 2).sentences
    /\ sentence = <<"a", " ", "a", " ">>

\* lines i..j are a run of lines read outside a preamble, from an empty
\* accumulator, none blank, none beginning with "#", "---" or a fence, none
\* containing ". ", of which only line j ends with "."
JoinedRun(i, j) ==
    /\ i <= j
    /\ ~After(i - 1).in_preamble
    /\ After(i - 1).sentence = <<>>
    /\ \A k \in i..j :
          /\ ProseLine(lines[k])
          /\ Pieces(lines[k], 1) = 1
          /\ (lines[k][Len(lines[k])] = ".") <=> (k = j)

\* C19: line joining: the last line of such a run pushes exactly one
\* sentence and no line before it pushes any; outside a code block the
\* sentence is the lines of the run joined by single spaces, inside a code
\* block it is the lines joined by newlines; the accumulator is empty again.
C19_LineJoining ==
    JustRead =>
        LET j == line_idx - 1 IN
        \A i \in 1..j :
            JoinedRun(i, j) =>
                /\ \A k \in i..(j - 1) : After(k).sentences = After(i - 1).sentences
                /\ sentences = Append(After(i - 1).sentences,
                                      IF After(i - 1).in_code_block
                                      THEN JoinNl(SubSeq(lines, i, j))
                                      ELSE JoinSp(SubSeq(lines, i, j)))
                /\ sentence = <<>>
                /\ in_code_block = After(i - 1).in_code_block

\* the run "a", "a." has just been read inside a code block: the one
\* sentence is "a\na."
C19_Witness ==
    /\ JustRead
    /\ line_idx = 4
    /\ lines[1] = Fence
    /\ JoinedRun(2, 3)
    /\ in_code_block
    /\ sentences = << <<"a", "\n", "a", ".">> >>

\* the sentences a step of the line loop adds, unless the line closes a
\* code block, are non-empty and end with a period
PushedEndInPeriod ==
    (Reading /\ ~Closes(line_idx)) =>
        \A n \in (Len(sentences) + 1)..Len(sentences') :
            /\ sentences'[n] # <<>>
            /\ sentences'[n][Len(sentences'[n])] = "."

\* s ends with exactly one space or exactly one newline
EndsWithSingle(s) ==
    /\ s # <<>>
    /\ s[Len(s)] \in {" ", "\n"}
    /\ Len(s) >= 2 => s[Len(s) - 1] # s[Len(s)]

\* C20 as stated: every sentence not pushed by a closing fence is non-empty
\* and ends with a period, and after every line the accumulator is empty or
\* ends with a single space or a single newline.
C20_ShapesAsStated ==
    [][pc = "lines" =>
          /\ PushedEndInPeriod
          /\ sentence' = <<>> \/ EndsWithSingle(sentence')]_vars

\* C20: every sentence not pushed by a closing fence is non-empty and ends
\* with a period, and after every line the accumulator is empty or its last
\* character is a space or a newline, never a period.
C20_Shapes ==
    [][pc = "lines" =>
          /\ PushedEndInPeriod
          /\ sentence' = <<>> \/ sentence'[Len(sentence')] \in {" ", "\n"}]_vars

\* a line ending in a space has just been appended to the accumulator,
\* which ends with two spaces
C20_Witness ==
    /\ JustRead
    /\ Len(sentence) >= 2
    /\ sentence[Len(sentence)] = " "
    /\ sentence[Len(sentence) - 1] = " "
    /\ lines[line_idx - 1][Len(lines[line_idx - 1])] = " "

====
